---- MODULE Spec2Model ----
(***************************************************************************)
(* Network-Analyzer: the multi-interface capture pipeline and the live     *)
(* statistics dashboard.                                                   *)
(*                                                                         *)
(*   SpecAgg    the Dashboard (stats aggregator) written by the capture    *)
(*              threads through updatePacket and read by the dashboard     *)
(*              thread through display.  Dashboard has no mutex, so each   *)
(*              C++ statement is broken into its loads and stores.         *)
(*   SpecLife   MultiMonitor::startCapture / captureThread / stopCapture,  *)
(*              the NetworkMonitor constructor and destructor, the SIGINT  *)
(*              handler and the process exit sequence.                     *)
(*   SpecDecode NetworkMonitor::packetHandler applied to one frame.        *)
(*   SpecDash   the single-interface run of main with its dashboard        *)
(*              thread.                                                    *)
(*   SpecFlow   updatePacket called by several capture threads for the     *)
(*              packets of one connection.                                 *)
(*   SpecStart  parseInterfaceList and the thread-creating loop of         *)
(*              MultiMonitor::startCapture.                                *)
(*   SpecPrint  printPacketInfo called by several capture threads.         *)
(***************************************************************************)
EXTENDS Integers, Sequences, FiniteSets, TLC

\* ------------------------------------------------------------------ bounds
NumSessions == 2          \* capture threads (one per monitored interface)
MaxRecords == 1           \* records each capture thread hands to the dashboard
MaxFrames == 2            \* frames a session receives in the lifecycle model
MaxCapLen == 42           \* largest captured length of the frames decoded
MaxConnRecords == 2       \* records of the single capture thread of SpecConn
MaxElapsed == 2           \* seconds the steady clock advances in SpecRender
MaxConns == 12            \* connections of the largest table rendered in SpecTop
MaxList == 2              \* tokens of the --interfaces argument
MaxTokenLen == 2          \* characters of one token of that argument

Sessions == 1..NumSessions

\* ------------------------------------------------------- program constants
ETHER_HDR == 14           \* packet + 14
IP_P_OFF == 9             \* offsetof(struct ip, ip_p)
IP_SRC_OFF == 12          \* offsetof(struct ip, ip_src)
IP_DST_OFF == 16          \* offsetof(struct ip, ip_dst)
IN_ADDR_LEN == 4          \* sizeof(struct in_addr)
PORTS_LEN == 4            \* th_sport and th_dport, two u_short
IPPROTO_ICMP == 1
IPPROTO_TCP == 6
IPPROTO_UDP == 17
SIGINT == 2
TOP_N == 10               \* if (count >= 10) break;
BAR_WIDTH == 40           \* drawBar("Packets", pair.second, max_count, color, 40)
EXIT_FAILURE == 1
LINE_PIECES == 19         \* operator<< calls of printPacketInfo, std::endl the last

VARIABLES
    \* Dashboard (dashboard.h private members)
    total_packets, total_bytes, protocol_counts, protocol_bytes, connections,
    \* capture thread t inside NetworkMonitor::packetHandler / updatePacket
    upc, reg, info, issued,
    \* history: how many updatePacket calls have returned, per record
    completed,
    \* history: the connection keys in the order they were inserted
    first_seen,
    \* dashboard thread inside Dashboard::display
    rpc, seen,
    \* MultiMonitor / NetworkMonitor / process
    mpc, mm_running, g_running, launched, joined, tdone,
    state, handle, openable, delivered, current_device,
    epc, exiter, exit_cause, exit_code, aborted, alive,
    stop_returned, stop_requested, dash_thread, use_dashboard,
    \* history: the info.interface values packetHandler stamped, per session
    labels,
    \* static NetworkMonitor::dashboard; history: records printed / recorded
    dashboard, sunk,
    \* main (main.cpp): arguments, host, position, locals and how it ended
    args, host, cpc, interfaces, dev_char, sessions_made, devices_opened,
    main_end, main_code, interrupted,
    \* whole seconds of steady_clock since Dashboard::start_time
    elapsed,
    \* packetHandler on one frame
    frame, dpc, reads, result, decoded,
    \* dashboard thread (main.cpp): position in while (running) { display(); sleep }
    dloc,
    \* --interfaces argument as its comma-separated tokens, MultiMonitor::interfaces,
    \* the interface each element of capture_threads was created for, position
    list_arg, mm_interfaces, capture_threads, spc,
    \* printPacketInfo: pieces of its line session t has written; the sessions
    \* that wrote into the console line that is not yet terminated
    ppc, line_owners

aggVars == <<total_packets, total_bytes, protocol_counts, protocol_bytes,
             connections, upc, reg, info, issued, completed, first_seen,
             rpc, seen>>
lifeVars == <<mpc, mm_running, g_running, launched, joined, tdone, state,
              handle, openable, delivered, current_device, epc, exiter,
              exit_cause, exit_code, aborted, alive, stop_returned,
              stop_requested, dash_thread, use_dashboard, labels, dashboard,
              sunk>>
decVars == <<frame, dpc, reads, result, decoded>>
mainVars == <<args, host, cpc, interfaces, dev_char, sessions_made,
              devices_opened, main_end, main_code, interrupted>>
renVars == <<elapsed>>
sideVars == <<dloc, list_arg, mm_interfaces, capture_threads, spc, ppc,
              line_owners>>
vars == <<aggVars, lifeVars, decVars, mainVars, renVars, sideVars>>

\* ------------------------------------------------------------ std::map
\* std::map<K, size_t>: a function whose domain is the key set.
EmptyMap == << >>
Get(m, k) == IF k \in DOMAIN m THEN m[k] ELSE 0
Put(m, k, v) == [x \in (DOMAIN m) \cup {k} |-> IF x = k THEN v ELSE m[x]]

RECURSIVE SumOver(_, _)
SumOver(m, keys) ==
    IF keys = {} THEN 0
    ELSE LET k == CHOOSE x \in keys : TRUE
         IN m[k] + SumOver(m, keys \ {k})
SumMap(m) == SumOver(m, DOMAIN m)

\* ------------------------------------------------------------ PacketInfo
RecAddrs == {"A", "B"}
\* README example output: a 66-byte TCP packet, a 74-byte UDP packet
RecLength(p) == IF p = "TCP" THEN 66 ELSE 74

\* struct ConnectionInfo: the five fields operator< compares
ConnectionInfo(i) ==
    [source_ip |-> i.source_ip, dest_ip |-> i.dest_ip,
     source_port |-> i.source_port, dest_port |-> i.dest_port,
     protocol |-> i.protocol]

\* std::string operator< on the strings the model uses: their lexicographic
\* order
StringOrder == <<"A", "B", "ICMP", "Other", "TCP", "UDP">>
StrRank(x) == CHOOSE n \in 1..Len(StringOrder) : StringOrder[n] = x
StrLess(a, b) == StrRank(a) < StrRank(b)

\* faulty variant: an ordering that leaves the two addresses out
ConnectionInfo_less_no_addr(a, b) ==
    IF a.source_port # b.source_port THEN a.source_port < b.source_port
    ELSE IF a.dest_port # b.dest_port THEN a.dest_port < b.dest_port
    ELSE StrLess(a.protocol, b.protocol)

\* ConnectionInfo::operator<
ConnectionInfo_less(a, b) ==
    IF a.source_ip # b.source_ip THEN StrLess(a.source_ip, b.source_ip)
    ELSE IF a.dest_ip # b.dest_ip THEN StrLess(a.dest_ip, b.dest_ip)
    ELSE IF a.source_port # b.source_port THEN a.source_port < b.source_port
    ELSE IF a.dest_port # b.dest_port THEN a.dest_port < b.dest_port
    ELSE StrLess(a.protocol, b.protocol)

\* std::map<ConnectionInfo, size_t>: the key the map treats as c, i.e. the
\* stored key k with !(k < c) && !(c < k), or c itself when there is none
\* (find returns end(), operator[] inserts c)
MapFind(m, c) ==
    {k \in DOMAIN m : ~ConnectionInfo_less(k, c) /\ ~ConnectionInfo_less(c, k)}
MapKey(m, c) ==
    IF MapFind(m, c) = {} THEN c ELSE CHOOSE k \in MapFind(m, c) : TRUE

\* the records the capture threads hand to updatePacket in SpecAgg
PacketInfos ==
    { [source_ip |-> a, dest_ip |-> b, source_port |-> 1, dest_port |-> 2,
       protocol |-> p, length |-> RecLength(p)] :
         a \in RecAddrs, b \in {"B"}, p \in {"TCP", "UDP"} }

NoInfo == [source_ip |-> "", dest_ip |-> "", source_port |-> 0, dest_port |-> 0,
           protocol |-> "", length |-> 0]

\* ====================================================================
\* SpecAgg: Dashboard::updatePacket and Dashboard::display
\* ====================================================================
\* Dashboard::Dashboard: total_packets(0), total_bytes(0), empty maps.
\* The capture threads are inside pcap_loop with NetworkMonitor::dashboard
\* set, so every frame goes to dashboard->updatePacket(info).
NoSeen == [total_packets |-> 0, total_bytes |-> 0,
           protocol_counts |-> EmptyMap, protocol_bytes |-> EmptyMap,
           connections |-> EmptyMap, elapsed |-> 0, duration |-> 0,
           max_count |-> 0, listed |-> << >>]

\* which thread is inside exit(): none, the main thread or capture thread id
NoThread == [kind |-> "none", id |-> 0]
MainThread == [kind |-> "main", id |-> 0]
CaptureThread(i) == [kind |-> "capture", id |-> i]

\* the variables of the other two specifications, parked
LifeIdle ==
    /\ mpc = "none" /\ mm_running = FALSE /\ g_running = TRUE
    /\ launched = [i \in Sessions |-> FALSE]
    /\ joined = [i \in Sessions |-> FALSE]
    /\ tdone = [i \in Sessions |-> FALSE]
    /\ state = [i \in Sessions |-> "Idle"]
    /\ handle = [i \in Sessions |-> "none"]
    /\ openable = [i \in Sessions |-> TRUE]
    /\ delivered = [i \in Sessions |-> 0]
    /\ current_device = 0
    /\ epc = "none" /\ exiter = NoThread /\ exit_cause = "none"
    /\ exit_code = 0 /\ aborted = FALSE
    /\ alive = TRUE /\ stop_returned = FALSE /\ stop_requested = FALSE
    /\ dash_thread = "none" /\ use_dashboard = FALSE
    /\ labels = [i \in Sessions |-> {}]
    /\ dashboard = "nullptr"
    /\ sunk = [i \in Sessions |-> [printed |-> 0, recorded |-> 0]]

NoFrame == [caplen |-> 0, len |-> 0, ip_hl |-> 0, ip_p |-> 0, src |-> "", dst |-> "",
            sport_hi |-> 0, sport_lo |-> 0, dport_hi |-> 0, dport_lo |-> 0]

\* main not modelled: no arguments, nothing resolved, nothing created
NoArgs == [early |-> "none", multi_mode |-> FALSE, interactive_mode |-> FALSE,
           interface_list |-> "", dev_given |-> FALSE]
NoHost == [enumeration |-> "devices", choice |-> "valid", openable |-> TRUE]

MainIdle ==
    /\ args = NoArgs /\ host = NoHost /\ cpc = "none"
    /\ interfaces = "unset" /\ dev_char = "nullptr"
    /\ sessions_made = FALSE /\ devices_opened = FALSE
    /\ main_end = "running" /\ main_code = 0 /\ interrupted = FALSE

\* Dashboard::Dashboard: start_time(steady_clock::now())
RenIdle == elapsed = 0

\* no dashboard thread function entered, no interface list, nothing printed
SideIdle ==
    /\ dloc = "none"
    /\ list_arg = <<>> /\ mm_interfaces = <<>> /\ capture_threads = <<>>
    /\ spc = "none"
    /\ ppc = [t \in Sessions |-> 0] /\ line_owners = {}

DecIdle ==
    /\ frame = NoFrame /\ dpc = "none" /\ reads = {} /\ result = "none"
    /\ decoded = NoInfo

AggInit ==
    /\ total_packets = 0 /\ total_bytes = 0
    /\ protocol_counts = EmptyMap /\ protocol_bytes = EmptyMap
    /\ connections = EmptyMap
    /\ upc = [t \in Sessions |-> "recv"]
    /\ reg = [t \in Sessions |-> 0]
    /\ info = [t \in Sessions |-> NoInfo]
    /\ issued = [t \in Sessions |-> 0]
    /\ completed = << >> /\ first_seen = << >>
    /\ rpc = "sleep" /\ seen = NoSeen

InitAgg == AggInit /\ LifeIdle /\ DecIdle /\ MainIdle /\ RenIdle /\ SideIdle

\* one step of thread t inside updatePacket: moves to `next`, keeps info
Step(t, next) ==
    /\ upc' = [upc EXCEPT ![t] = next]
    /\ UNCHANGED <<info, issued, completed, first_seen, rpc, seen, lifeVars, decVars, mainVars, renVars, sideVars>>

\* packetHandler line 229-230: a decoded record enters dashboard->updatePacket
packetHandler_deliver(t) ==
    /\ upc[t] = "recv" /\ issued[t] < MaxRecords
    /\ \E r \in PacketInfos : info' = [info EXCEPT ![t] = r]
    /\ issued' = [issued EXCEPT ![t] = @ + 1]
    /\ upc' = [upc EXCEPT ![t] = "tp_load"]
    /\ UNCHANGED <<total_packets, total_bytes, protocol_counts, protocol_bytes,
                   connections, reg, completed, first_seen, rpc, seen, lifeVars, decVars, mainVars, renVars, sideVars>>

\* total_packets++  (load, then store)
total_packets_load(t) ==
    /\ upc[t] = "tp_load"
    /\ reg' = [reg EXCEPT ![t] = total_packets]
    /\ Step(t, "tp_store")
    /\ UNCHANGED <<total_packets, total_bytes, protocol_counts, protocol_bytes, connections>>

total_packets_store(t) ==
    /\ upc[t] = "tp_store"
    /\ total_packets' = reg[t] + 1
    /\ Step(t, "tb_load")
    /\ reg' = [reg EXCEPT ![t] = 0]
    /\ UNCHANGED <<total_bytes, protocol_counts, protocol_bytes, connections>>

\* total_bytes += info.length
total_bytes_load(t) ==
    /\ upc[t] = "tb_load"
    /\ reg' = [reg EXCEPT ![t] = total_bytes]
    /\ Step(t, "tb_store")
    /\ UNCHANGED <<total_packets, total_bytes, protocol_counts, protocol_bytes, connections>>

total_bytes_store(t) ==
    /\ upc[t] = "tb_store"
    /\ total_bytes' = reg[t] + info[t].length
    /\ Step(t, "pc_load")
    /\ reg' = [reg EXCEPT ![t] = 0]
    /\ UNCHANGED <<total_packets, protocol_counts, protocol_bytes, connections>>

\* protocol_counts[info.protocol]++ : operator[] inserts a missing key with
\* value 0, then the value is loaded
protocol_counts_load(t) ==
    /\ upc[t] = "pc_load"
    /\ protocol_counts' = Put(protocol_counts, info[t].protocol,
                              Get(protocol_counts, info[t].protocol))
    /\ reg' = [reg EXCEPT ![t] = Get(protocol_counts, info[t].protocol)]
    /\ Step(t, "pc_store")
    /\ UNCHANGED <<total_packets, total_bytes, protocol_bytes, connections>>

protocol_counts_store(t) ==
    /\ upc[t] = "pc_store"
    /\ protocol_counts' = Put(protocol_counts, info[t].protocol, reg[t] + 1)
    /\ Step(t, "pb_load")
    /\ reg' = [reg EXCEPT ![t] = 0]
    /\ UNCHANGED <<total_packets, total_bytes, protocol_bytes, connections>>

\* protocol_bytes[info.protocol] += info.length : operator[] inserts a
\* missing key with value 0, then the value is loaded
protocol_bytes_load(t) ==
    /\ upc[t] = "pb_load"
    /\ protocol_bytes' = Put(protocol_bytes, info[t].protocol,
                             Get(protocol_bytes, info[t].protocol))
    /\ reg' = [reg EXCEPT ![t] = Get(protocol_bytes, info[t].protocol)]
    /\ Step(t, "pb_store")
    /\ UNCHANGED <<total_packets, total_bytes, protocol_counts, connections>>

protocol_bytes_store(t) ==
    /\ upc[t] = "pb_store"
    /\ protocol_bytes' = Put(protocol_bytes, info[t].protocol, reg[t] + info[t].length)
    /\ Step(t, "cn_find")
    /\ reg' = [reg EXCEPT ![t] = 0]
    /\ UNCHANGED <<total_packets, total_bytes, protocol_counts, connections>>

\* auto it = connections.find(conn); reg keeps the count found (0: end())
connections_find(t) ==
    /\ upc[t] = "cn_find"
    /\ reg' = [reg EXCEPT ![t] =
                  Get(connections, MapKey(connections, ConnectionInfo(info[t])))]
    /\ Step(t, "cn_store")
    /\ UNCHANGED <<total_packets, total_bytes, protocol_counts, protocol_bytes, connections>>

\* it->second++  or  connections[conn] = 1 ; last_update = now ; return
connections_store(t) ==
    /\ upc[t] = "cn_store"
    /\ connections' = Put(connections,
                          MapKey(connections, ConnectionInfo(info[t])),
                          IF reg[t] > 0 THEN reg[t] + 1 ELSE 1)
    /\ completed' = Put(completed, info[t], Get(completed, info[t]) + 1)
    /\ first_seen' = IF MapKey(connections, ConnectionInfo(info[t])) \in DOMAIN connections
                     THEN first_seen
                     ELSE Append(first_seen, ConnectionInfo(info[t]))
    /\ upc' = [upc EXCEPT ![t] = "recv"]
    /\ reg' = [reg EXCEPT ![t] = 0]
    /\ info' = [info EXCEPT ![t] = NoInfo]
    /\ UNCHANGED <<total_packets, total_bytes, protocol_counts, protocol_bytes,
                   issued, rpc, seen, lifeVars, decVars, mainVars, renVars, sideVars>>

updatePacket(t) ==
    \/ total_packets_load(t) \/ total_packets_store(t)
    \/ total_bytes_load(t) \/ total_bytes_store(t)
    \/ protocol_counts_load(t) \/ protocol_counts_store(t)
    \/ protocol_bytes_load(t) \/ protocol_bytes_store(t)
    \/ connections_find(t) \/ connections_store(t)

\* ---- Dashboard::display, run by the dashboard thread of main.cpp once a
\* second (while (running) { display(); sleep_for(1s); }).  It takes no lock.
RStep(next) ==
    /\ rpc' = next
    /\ UNCHANGED <<total_packets, total_bytes, protocol_counts, connections,
                   upc, reg, info, issued, completed, first_seen, lifeVars, decVars, mainVars, renVars, sideVars>>

\* faulty variant: the elapsed seconds used as they are
Duration_unguarded(e) == e

\* displayTrafficStats: duration = duration_cast<seconds>(now - start_time)
\* .count(); if (duration == 0) duration = 1;
Duration(e) == IF e = 0 THEN 1 ELSE e

\* displayTrafficStats: now = steady_clock::now(), duration, then
\* static_cast<double>(total_packets) / duration
displayTrafficStats_packets ==
    /\ rpc = "sleep"
    /\ seen' = [NoSeen EXCEPT !.total_packets = total_packets,
                              !.elapsed = elapsed,
                              !.duration = Duration(elapsed)]
    /\ RStep("stats_bytes")
    /\ UNCHANGED protocol_bytes

\* displayTrafficStats: static_cast<double>(total_bytes) / duration
displayTrafficStats_bytes ==
    /\ rpc = "stats_bytes"
    /\ seen' = [seen EXCEPT !.total_bytes = total_bytes]
    /\ RStep("proto")
    /\ UNCHANGED protocol_bytes

\* displayProtocolDistribution: size_t max_count = 0; for each pair
\* if (pair.second > max_count) max_count = pair.second
MaxCount(m) ==
    IF DOMAIN m = {} THEN 0
    ELSE CHOOSE v \in {m[k] : k \in DOMAIN m} : \A k \in DOMAIN m : m[k] <= v

\* displayProtocolDistribution, first loop: max_count is taken from the
\* protocol_counts of this moment
displayProtocolDistribution_max ==
    /\ rpc = "proto"
    /\ seen' = [seen EXCEPT !.max_count = MaxCount(protocol_counts)]
    /\ RStep("proto_bars")
    /\ UNCHANGED protocol_bytes

\* displayProtocolDistribution, second loop: iterates protocol_counts again,
\* draws each bar from pair.second and the max_count of the first loop, and
\* reads protocol_bytes[pair.first]; std::map::operator[] inserts a missing
\* key with value 0.
displayProtocolDistribution ==
    /\ rpc = "proto_bars"
    /\ protocol_bytes' = [p \in (DOMAIN protocol_bytes) \cup (DOMAIN protocol_counts) |->
                             Get(protocol_bytes, p)]
    /\ seen' = [seen EXCEPT !.protocol_counts = protocol_counts,
                            !.protocol_bytes = [p \in DOMAIN protocol_counts |->
                                                  Get(protocol_bytes, p)]]
    /\ RStep("conns")

\* faulty variant: the copy is listed without being sorted
Candidates_unsorted(m, rem) == {k \in rem : m[k] = m[k]}

\* std::sort(conn_vec, a.second > b.second): the entries that may come next
\* among those not yet placed, i.e. the ones no other entry must precede.
\* std::sort is not stable: entries with equal counts come in any order.
Candidates(m, rem) == {k \in rem : \A u \in rem : m[k] >= m[u]}

\* the first n entries of every order std::sort can leave conn_vec in
RECURSIVE SortedFrom(_, _, _)
SortedFrom(m, rem, n) ==
    IF n = 0 \/ rem = {} THEN {<< >>}
    ELSE UNION { {<<k>> \o t : t \in SortedFrom(m, rem \ {k}, n - 1)} :
                 k \in Candidates(m, rem) }

\* for (pair : conn_vec) { if (count >= 10) break; ... count++; }
TopLists(m) == SortedFrom(m, DOMAIN m, TOP_N)

\* displayTopConnections: conn_vec(connections.begin(), connections.end()),
\* std::sort, then the first 10 entries are printed
displayTopConnections ==
    /\ rpc = "conns"
    /\ \E l \in TopLists(connections) :
          seen' = [seen EXCEPT !.connections = connections, !.listed = l]
    /\ RStep("shown")
    /\ UNCHANGED protocol_bytes

\* std::this_thread::sleep_for(std::chrono::seconds(1))
display_sleep ==
    /\ rpc = "shown"
    /\ seen' = NoSeen
    /\ RStep("sleep")
    /\ UNCHANGED protocol_bytes

display ==
    \/ displayTrafficStats_packets \/ displayTrafficStats_bytes
    \/ displayProtocolDistribution_max \/ displayProtocolDistribution
    \/ displayTopConnections
    \/ display_sleep

NextAgg ==
    \/ \E t \in Sessions : packetHandler_deliver(t)
    \/ \E t \in Sessions : updatePacket(t)
    \/ display

SpecAgg == InitAgg /\ [][NextAgg]_vars

\* ---- what the completed calls add up to
RECURSIVE BytesOver(_, _)
BytesOver(m, keys) ==
    IF keys = {} THEN 0
    ELSE LET k == CHOOSE x \in keys : TRUE
         IN m[k] * k.length + BytesOver(m, keys \ {k})
CompletedBytes == BytesOver(completed, DOMAIN completed)

\* no updatePacket call is in progress
Quiescent == \A t \in Sessions : upc[t] = "recv"
\* every capture thread has issued its M records and all calls have returned
AllRecorded == Quiescent /\ \A t \in Sessions : issued[t] = MaxRecords

\* C1: when N capture threads each call updatePacket M times, in any
\* interleaving, then after all calls have returned total_packets = N*M and
\* total_bytes = the sum of the lengths of all recorded packets.
C1_NoLostUpdate ==
    AllRecorded =>
        /\ total_packets = NumSessions * MaxRecords
        /\ total_bytes = CompletedBytes

\* C2: a display pass never shows a partially applied record: the totals, the
\* per-protocol counters and the connection counters one pass has read all
\* reflect the same set of applied records.
C2_ConsistentRead ==
    rpc = "shown" =>
        /\ seen.total_packets = SumMap(seen.protocol_counts)
        /\ seen.total_bytes = SumMap(seen.protocol_bytes)
        /\ seen.total_packets = SumMap(seen.connections)

\* C3: after any sequence of completed updatePacket calls, total_packets is
\* the sum of all protocol_counts values and total_bytes the sum of all
\* protocol_bytes values.
C3_TotalsMatchProtocols ==
    Quiescent =>
        /\ total_packets = SumMap(protocol_counts)
        /\ total_bytes = SumMap(protocol_bytes)

\* ====================================================================
\* SpecLife: multi-interface mode of main.cpp (lines 274-309), MultiMonitor
\* and the NetworkMonitor each capture thread creates
\* ====================================================================
\* main has built the MultiMonitor (running(false), no thread yet) and, with
\* --dashboard, the Dashboard and the dashboard thread; it is about to call
\* multi_monitor->startCapture().  openable[i]: whether pcap_open_live
\* succeeds on interface i.
InitLife ==
    /\ mpc = "start" /\ mm_running = FALSE /\ g_running = TRUE
    /\ launched = [i \in Sessions |-> FALSE]
    /\ joined = [i \in Sessions |-> FALSE]
    /\ tdone = [i \in Sessions |-> FALSE]
    /\ state = [i \in Sessions |-> "Idle"]
    /\ handle = [i \in Sessions |-> "none"]
    /\ openable \in [Sessions -> BOOLEAN]
    /\ delivered = [i \in Sessions |-> 0]
    /\ current_device = 0
    /\ epc = "none" /\ exiter = NoThread /\ exit_cause = "none"
    /\ exit_code = 0 /\ aborted = FALSE
    /\ alive = TRUE /\ stop_returned = FALSE /\ stop_requested = FALSE
    /\ use_dashboard \in BOOLEAN
    /\ dash_thread = IF use_dashboard THEN "running" ELSE "none"
    /\ labels = [i \in Sessions |-> {}]
    /\ dashboard = "nullptr"
    /\ sunk = [i \in Sessions |-> [printed |-> 0, recorded |-> 0]]
    /\ AggInit /\ DecIdle /\ MainIdle /\ RenIdle /\ SideIdle

\* thread th can take a step: the process exists and th is not the thread
\* that is inside exit()
CanRun(th) == alive /\ exiter # th

\* exit(code) called by thread th: static destructors start running on th.
\* A second exit() while one is in progress changes nothing more here.
CallExit(th, cause, code) ==
    IF epc = "none"
    THEN /\ epc' = "destruct" /\ exiter' = th
         /\ exit_cause' = cause /\ exit_code' = code
    ELSE UNCHANGED <<epc, exiter, exit_cause, exit_code>>

\* ---- MultiMonitor::startCapture (main thread)
\* if (running) return;  running = true;
startCapture_enter ==
    /\ CanRun(MainThread) /\ mpc = "start"
    /\ IF mm_running
       THEN mpc' = "returned" /\ UNCHANGED mm_running
       ELSE mpc' = "spawn" /\ mm_running' = TRUE
    /\ UNCHANGED <<g_running, launched, joined, tdone, state, handle, openable,
                   delivered, current_device, epc, exiter, exit_cause, exit_code,
                   aborted, alive, stop_returned, stop_requested, dash_thread,
                   use_dashboard, labels, dashboard, sunk,
                   aggVars, decVars, mainVars, renVars, sideVars>>

\* capture_threads.emplace_back(&MultiMonitor::captureThread, this, iface)
startCapture_spawn(i) ==
    /\ CanRun(MainThread) /\ mpc = "spawn"
    /\ ~launched[i] /\ \A j \in Sessions : j < i => launched[j]
    /\ launched' = [launched EXCEPT ![i] = TRUE]
    /\ mpc' = IF i = NumSessions THEN "join" ELSE "spawn"
    /\ UNCHANGED <<mm_running, g_running, joined, tdone, state, handle, openable,
                   delivered, current_device, epc, exiter, exit_cause, exit_code,
                   aborted, alive, stop_returned, stop_requested, dash_thread,
                   use_dashboard, labels, dashboard, sunk,
                   aggVars, decVars, mainVars, renVars, sideVars>>

\* for (auto& thread : capture_threads) if (thread.joinable()) thread.join();
\* what one join that has returned leaves behind
JoinReturns(i) ==
    /\ CanRun(MainThread) /\ mpc = "join"
    /\ ~joined[i] /\ \A j \in Sessions : j < i => joined[j]
    /\ joined' = [joined EXCEPT ![i] = TRUE]
    /\ mpc' = IF i = NumSessions THEN "returned" ELSE "join"
    /\ UNCHANGED <<mm_running, g_running, launched, tdone, state, handle, openable,
                   delivered, current_device, epc, exiter, exit_cause, exit_code,
                   aborted, alive, stop_returned, stop_requested, dash_thread,
                   use_dashboard, labels, dashboard, sunk,
                   aggVars, decVars, mainVars, renVars, sideVars>>

\* faulty variant: a join that does not wait for the thread function to return
startCapture_join_nowait(i) ==
    JoinReturns(i)

\* thread.join() blocks until the thread function has returned
startCapture_join(i) ==
    /\ tdone[i]
    /\ JoinReturns(i)

\* ---- main after startCapture returned (main.cpp 297-309)
\* running = false;  (dashboard mode only)
main_after_capture ==
    /\ CanRun(MainThread) /\ mpc = "returned"
    /\ g_running' = IF use_dashboard THEN FALSE ELSE g_running
    /\ mpc' = "join_dash"
    /\ UNCHANGED <<mm_running, launched, joined, tdone, state, handle, openable,
                   delivered, current_device, epc, exiter, exit_cause, exit_code,
                   aborted, alive, stop_returned, stop_requested, dash_thread,
                   use_dashboard, labels, dashboard, sunk,
                   aggVars, decVars, mainVars, renVars, sideVars>>

\* dashboard_thread.join();  return 0;
main_return ==
    /\ CanRun(MainThread) /\ mpc = "join_dash"
    /\ dash_thread \in {"none", "finished"}
    /\ mpc' = "exited"
    /\ CallExit(MainThread, "main_return", 0)
    /\ UNCHANGED <<mm_running, g_running, launched, joined, tdone, state, handle,
                   openable, delivered, current_device, aborted, alive,
                   stop_returned, stop_requested, dash_thread, use_dashboard,
                   labels, dashboard, sunk,
                   aggVars, decVars, mainVars, renVars, sideVars>>

\* dashboard thread: while (running) { display(); sleep } leaves the loop
dashboard_thread_exit ==
    /\ alive /\ dash_thread = "running" /\ ~g_running
    /\ dash_thread' = "finished"
    /\ UNCHANGED <<mpc, mm_running, g_running, launched, joined, tdone, state,
                   handle, openable, delivered, current_device, epc, exiter,
                   exit_cause, exit_code, aborted, alive, stop_returned,
                   stop_requested, use_dashboard, labels, dashboard, sunk,
                   aggVars, decVars, mainVars, renVars, sideVars>>

\* ---- MultiMonitor::captureThread (capture thread i)
\* the thread starts: std::make_unique<NetworkMonitor>(interface_name, ...)
\* enters the constructor, which calls pcap_open_live
captureThread_begin(i) ==
    /\ CanRun(CaptureThread(i)) /\ launched[i] /\ state[i] = "Idle"
    /\ state' = [state EXCEPT ![i] = "Opening"]
    /\ UNCHANGED <<mpc, mm_running, g_running, launched, joined, tdone, handle,
                   openable, delivered, current_device, epc, exiter, exit_cause,
                   exit_code, aborted, alive, stop_returned, stop_requested,
                   dash_thread, use_dashboard, labels, dashboard, sunk,
                   aggVars, decVars, mainVars, renVars, sideVars>>

\* NetworkMonitor::NetworkMonitor, handle != nullptr: current_device = device;
\* then captureThread runs if (dashboard) monitor->setDashboard(dashboard)
\* (the MultiMonitor has a dashboard exactly with --dashboard) and calls
\* monitor->startCapture(-1), i.e. pcap_loop
NetworkMonitor_open_ok(i) ==
    /\ CanRun(CaptureThread(i)) /\ state[i] = "Opening" /\ openable[i]
    /\ handle' = [handle EXCEPT ![i] = "open"]
    /\ current_device' = i
    /\ dashboard' = IF use_dashboard THEN "set" ELSE dashboard
    /\ state' = [state EXCEPT ![i] = "Running"]
    /\ UNCHANGED <<mpc, mm_running, g_running, launched, joined, tdone, openable,
                   delivered, epc, exiter, exit_cause, exit_code, aborted, alive,
                   stop_returned, stop_requested, dash_thread, use_dashboard,
                   labels, sunk, aggVars, decVars, mainVars, renVars, sideVars>>

\* NetworkMonitor::NetworkMonitor, handle == nullptr:
\* std::cerr << "Couldn't open device ..."; exit(EXIT_FAILURE);
NetworkMonitor_open_fail(i) ==
    /\ CanRun(CaptureThread(i)) /\ state[i] = "Opening" /\ ~openable[i]
    /\ state' = [state EXCEPT ![i] = "Failed"]
    /\ CallExit(CaptureThread(i), "open_error", EXIT_FAILURE)
    /\ UNCHANGED <<mpc, mm_running, g_running, launched, joined, tdone, handle,
                   openable, delivered, current_device, aborted, alive,
                   stop_returned, stop_requested, dash_thread, use_dashboard,
                   labels, dashboard, sunk,
                   aggVars, decVars, mainVars, renVars, sideVars>>

\* faulty variant: the record goes to both sinks
Sink_both(d) ==
    IF d = "set" THEN {"dashboard", "console"} ELSE {"console", "dashboard"}

\* packetHandler: if (dashboard) dashboard->updatePacket(info);
\*                else printPacketInfo(info);
Sink(d) == IF d = "set" THEN {"dashboard"} ELSE {"console"}

\* pcap_loop(handle, -1, packetHandler, nullptr) hands one frame to
\* packetHandler, which stamps it: info.interface = current_device (the
\* static string the last constructed NetworkMonitor wrote); pcap_loop reads
\* no stop flag
pcap_loop_frame(i) ==
    /\ CanRun(CaptureThread(i)) /\ state[i] = "Running"
    /\ delivered[i] < MaxFrames
    /\ delivered' = [delivered EXCEPT ![i] = @ + 1]
    /\ labels' = [labels EXCEPT ![i] = @ \cup {current_device}]
    /\ sunk' = [sunk EXCEPT
                  ![i].printed = @ + (IF "console" \in Sink(dashboard) THEN 1 ELSE 0),
                  ![i].recorded = @ + (IF "dashboard" \in Sink(dashboard) THEN 1 ELSE 0)]
    /\ UNCHANGED <<mpc, mm_running, g_running, launched, joined, tdone, state,
                   handle, openable, current_device, epc, exiter, exit_cause,
                   exit_code, aborted, alive, stop_returned, stop_requested,
                   dash_thread, use_dashboard, dashboard, aggVars, decVars, mainVars, renVars, sideVars>>

\* faulty variant: a destructor that forgets pcap_close
NetworkMonitor_dtor_leak(h) == h

\* NetworkMonitor::~NetworkMonitor: if (handle) pcap_close(handle);
NetworkMonitor_dtor(h) == IF h = "open" THEN "closed" ELSE h

\* faulty variant: a receive error handled like an open failure, by exit()
pcap_loop_error_exits(i) ==
    /\ CanRun(CaptureThread(i)) /\ state[i] = "Running"
    /\ state' = [state EXCEPT ![i] = "Failed"]
    /\ CallExit(CaptureThread(i), "open_error", EXIT_FAILURE)
    /\ UNCHANGED <<mpc, mm_running, g_running, launched, joined, tdone, handle,
                   openable, delivered, current_device, aborted, alive,
                   stop_returned, stop_requested, dash_thread, use_dashboard,
                   labels, dashboard, sunk,
                   aggVars, decVars, mainVars, renVars, sideVars>>

\* pcap_loop returns on a receive error (with cnt = -1 and no pcap_breakloop
\* call anywhere, an error is its only return); captureThread leaves the try
\* block, the unique_ptr destroys the NetworkMonitor, the thread function
\* returns
pcap_loop_error(i) ==
    /\ CanRun(CaptureThread(i)) /\ state[i] = "Running"
    /\ handle' = [handle EXCEPT ![i] = NetworkMonitor_dtor(handle[i])]
    /\ state' = [state EXCEPT ![i] = "Failed"]
    /\ tdone' = [tdone EXCEPT ![i] = TRUE]
    /\ UNCHANGED <<mpc, mm_running, g_running, launched, joined, openable,
                   delivered, current_device, epc, exiter, exit_cause, exit_code,
                   aborted, alive, stop_returned, stop_requested, dash_thread,
                   use_dashboard, labels, dashboard, sunk,
                   aggVars, decVars, mainVars, renVars, sideVars>>

\* ---- signalHandler (main.cpp 36-43), run by thread th when SIGINT arrives:
\* running = false;  exit(signum);
signalHandler(th) ==
    /\ alive /\ epc = "none"
    /\ th = MainThread \/ (th.kind = "capture" /\ launched[th.id] /\ ~tdone[th.id])
    /\ g_running' = FALSE
    /\ stop_requested' = TRUE
    /\ CallExit(th, "sigint", SIGINT)
    /\ UNCHANGED <<mpc, mm_running, launched, joined, tdone, state, handle,
                   openable, delivered, current_device, aborted, alive,
                   stop_returned, dash_thread, use_dashboard, labels, dashboard, sunk,
                   aggVars, decVars, mainVars, renVars, sideVars>>

\* ---- exit(): the static destructors run; ~unique_ptr<MultiMonitor> calls
\* MultiMonitor::~MultiMonitor, whose body is stopCapture()
\* MultiMonitor::stopCapture: if (!running) return; running = false; return
stopCapture ==
    /\ alive /\ epc = "destruct"
    /\ IF mm_running
       THEN mm_running' = FALSE /\ stop_requested' = TRUE
       ELSE UNCHANGED <<mm_running, stop_requested>>
    /\ stop_returned' = TRUE
    /\ epc' = "stop_returned"
    /\ UNCHANGED <<mpc, g_running, launched, joined, tdone, state, handle,
                   openable, delivered, current_device, exiter, exit_cause,
                   exit_code, aborted, alive, dash_thread, use_dashboard,
                   labels, dashboard, sunk,
                   aggVars, decVars, mainVars, renVars, sideVars>>

\* ~MultiMonitor destroys its members: destroying a joinable std::thread in
\* capture_threads calls std::terminate (abort); otherwise exit() completes
\* and the process ends with the status passed to exit()
MultiMonitor_destroy ==
    /\ alive /\ epc = "stop_returned"
    /\ aborted' = (\E i \in Sessions : launched[i] /\ ~joined[i])
    /\ alive' = FALSE
    /\ epc' = "dead"
    /\ UNCHANGED <<mpc, mm_running, g_running, launched, joined, tdone, state,
                   handle, openable, delivered, current_device, exiter,
                   exit_cause, exit_code, stop_returned, stop_requested,
                   dash_thread, use_dashboard, labels, dashboard, sunk,
                   aggVars, decVars, mainVars, renVars, sideVars>>

Threads == {MainThread} \cup {CaptureThread(i) : i \in Sessions}

NextLife ==
    \/ startCapture_enter
    \/ \E i \in Sessions : startCapture_spawn(i)
    \/ \E i \in Sessions : startCapture_join(i)
    \/ main_after_capture
    \/ main_return
    \/ dashboard_thread_exit
    \/ \E i \in Sessions : captureThread_begin(i)
    \/ \E i \in Sessions : NetworkMonitor_open_ok(i)
    \/ \E i \in Sessions : NetworkMonitor_open_fail(i)
    \/ \E i \in Sessions : pcap_loop_frame(i)
    \/ \E i \in Sessions : pcap_loop_error(i)
    \/ \E th \in Threads : signalHandler(th)
    \/ stopCapture
    \/ MultiMonitor_destroy

SpecLife == InitLife /\ [][NextLife]_vars

\* The scheduler runs every thread that can take a step, and exit() runs to
\* completion.  Frames, receive errors and SIGINT come from outside and are
\* not owed.
FairLife ==
    /\ WF_vars(startCapture_enter)
    /\ WF_vars(\E i \in Sessions : startCapture_spawn(i))
    /\ WF_vars(\E i \in Sessions : startCapture_join(i))
    /\ WF_vars(main_after_capture)
    /\ WF_vars(main_return)
    /\ WF_vars(dashboard_thread_exit)
    /\ WF_vars(\E i \in Sessions : captureThread_begin(i))
    /\ WF_vars(\E i \in Sessions : NetworkMonitor_open_ok(i))
    /\ WF_vars(\E i \in Sessions : NetworkMonitor_open_fail(i))
    /\ WF_vars(stopCapture)
    /\ WF_vars(MultiMonitor_destroy)

FairSpecLife == SpecLife /\ FairLife

\* ---- session states
Terminal == {"Stopped", "Failed"}
OpenFailed(i) == state[i] = "Failed" /\ ~openable[i]
StartReturned == mpc \in {"returned", "join_dash", "exited"}

\* C4: in a multi-interface run, a failure to open one device does not abort
\* the capture sessions of the other devices: a session that opened its
\* device and is Running is not brought down by the other session's failure.
C4_OpenFailureIsolated ==
    \A i, j \in Sessions :
        (i # j /\ OpenFailed(i) /\ exit_cause = "open_error" /\ state[j] = "Running")
            => alive

\* C5: when MultiMonitor::stopCapture returns, no capture session is still
\* in the Running state.
C5_StopWaits ==
    stop_returned => \A i \in Sessions : state[i] # "Running"

\* C6: MultiMonitor::startCapture returns only after every launched session
\* has at least reached Running or Failed; it does not return while some
\* session is still Idle or Opening.
C6_StartWaits ==
    StartReturned =>
        \A i \in Sessions : launched[i] /\ state[i] \in {"Running", "Stopped", "Failed"}

C6_Witness ==
    /\ mpc = "returned" /\ alive
    /\ \A i \in Sessions : launched[i] /\ joined[i] /\ state[i] = "Failed"

\* C7: once a stop is requested (stop flag set or SIGINT delivered), every
\* Running session eventually leaves its receive loop and reaches Stopped
\* while the process is still alive.
C7_CooperativeStop ==
    \A i \in Sessions :
        (stop_requested /\ state[i] = "Running") ~> (alive /\ state[i] = "Stopped")

\* C8: a capture session only moves along Idle -> Opening -> Running ->
\* {Stopped, Failed} (Opening -> Failed on open error), and in both terminal
\* states the capture handle it opened has been released.
SessionEdges ==
    { <<"Idle", "Opening">>, <<"Opening", "Running">>, <<"Opening", "Failed">>,
      <<"Running", "Stopped">>, <<"Running", "Failed">> }

C8_Lifecycle ==
    [][ \A i \in Sessions :
          /\ state'[i] # state[i] => <<state[i], state'[i]>> \in SessionEdges
          /\ state'[i] \in Terminal => handle'[i] # "open" ]_vars

C8_Witness ==
    \E i \in Sessions :
        /\ state[i] = "Failed" /\ handle[i] = "closed" /\ tdone[i]

\* ====================================================================
\* SpecDecode: NetworkMonitor::packetHandler on one captured frame
\* ====================================================================
\* A frame is the captured buffer `packet` with pkthdr->caplen valid bytes
\* and pkthdr->len bytes on the wire.  The fields are what memory holds at
\* the offsets packetHandler reads: inside the capture they are the frame's
\* bytes, beyond caplen they are whatever follows the capture in memory, so
\* they are drawn freely in both cases.  ip_hl below 5 (transport header
\* overlapping the IP header) is not drawn.
HdrLens == {5, 6, 15}
IpProtos == {IPPROTO_ICMP, IPPROTO_TCP, IPPROTO_UDP, 47}
ByteVals == {0, 255}
WireExtra == {0, 100}

Frames ==
    [caplen : 0..MaxCapLen, len : 0..(MaxCapLen + 100), ip_hl : HdrLens,
     ip_p : IpProtos, src : {"A", "B"}, dst : {"B"},
     sport_hi : ByteVals, sport_lo : ByteVals,
     dport_hi : ByteVals, dport_lo : ByteVals]

InitDecode ==
    /\ frame \in Frames
    /\ frame.len - frame.caplen \in WireExtra
    /\ dpc = "ready" /\ reads = {} /\ result = "none" /\ decoded = NoInfo
    /\ AggInit /\ LifeIdle /\ MainIdle /\ RenIdle /\ SideIdle

\* int ip_header_length = ip_header->ip_hl * 4
ip_header_length(f) == f.ip_hl * 4

\* faulty variant: the two bytes taken in host (little-endian) order
ntohs_swapped(hi, lo) == lo * 256 + hi

\* ntohs: the two bytes in network (big-endian) order
ntohs(hi, lo) == hi * 256 + lo

\* faulty variant: the transport header is read for every protocol tag
HasPorts_always(f) == f.ip_p = f.ip_p

\* case IPPROTO_TCP / case IPPROTO_UDP: the two cases that read tcp_header
HasPorts(f) == f.ip_p \in {IPPROTO_TCP, IPPROTO_UDP}

\* switch (ip_header->ip_p)
ProtocolName(p) ==
    IF p = IPPROTO_TCP THEN "TCP"
    ELSE IF p = IPPROTO_UDP THEN "UDP"
    ELSE IF p = IPPROTO_ICMP THEN "ICMP"
    ELSE "Other"

\* the offsets into `packet` that packetHandler dereferences: ip_hl, ip_src,
\* ip_dst, ip_p, and for TCP/UDP th_sport, th_dport at 14 + ip_header_length
ReadOffsets(f) ==
    {ETHER_HDR}
    \cup ((ETHER_HDR + IP_SRC_OFF)..(ETHER_HDR + IP_SRC_OFF + IN_ADDR_LEN - 1))
    \cup ((ETHER_HDR + IP_DST_OFF)..(ETHER_HDR + IP_DST_OFF + IN_ADDR_LEN - 1))
    \cup {ETHER_HDR + IP_P_OFF}
    \cup (IF HasPorts(f)
          THEN (ETHER_HDR + ip_header_length(f))
                 ..(ETHER_HDR + ip_header_length(f) + PORTS_LEN - 1)
          ELSE {})

\* the PacketInfo packetHandler fills in (lines 195-226)
Decode(f) ==
    [source_ip |-> f.src, dest_ip |-> f.dst,
     source_port |-> IF HasPorts(f) THEN ntohs(f.sport_hi, f.sport_lo) ELSE 0,
     dest_port |-> IF HasPorts(f) THEN ntohs(f.dport_hi, f.dport_lo) ELSE 0,
     protocol |-> ProtocolName(f.ip_p),
     length |-> f.len]

OutOfBounds(f) == \E o \in ReadOffsets(f) : o >= f.caplen

\* packetHandler runs to its end: it reads the headers without looking at
\* caplen, builds the record and hands it to the sink (dashboard->updatePacket
\* or printPacketInfo)
packetHandler ==
    /\ dpc = "ready"
    /\ reads' = ReadOffsets(frame)
    /\ decoded' = Decode(frame)
    /\ result' = "delivered"
    /\ dpc' = "done"
    /\ UNCHANGED <<frame, aggVars, lifeVars, mainVars, renVars, sideVars>>

\* a read beyond the captured bytes is undefined behaviour: besides reading
\* whatever is there (above) it can fault, which ends the process
packetHandler_fault ==
    /\ dpc = "ready"
    /\ OutOfBounds(frame)
    /\ reads' = ReadOffsets(frame)
    /\ result' = "fault"
    /\ dpc' = "done"
    /\ UNCHANGED <<frame, decoded, aggVars, lifeVars, mainVars, renVars, sideVars>>

NextDecode == packetHandler \/ packetHandler_fault

SpecDecode == InitDecode /\ [][NextDecode]_vars

\* bytes a frame must hold for its claimed headers: the link header, the IP
\* header of ip_hl*4 bytes, and the four port bytes of a TCP or UDP frame
Needed(f) ==
    ETHER_HDR + ip_header_length(f) + (IF HasPorts(f) THEN PORTS_LEN ELSE 0)

\* C9: for any frame whose captureLength is smaller than the bytes needed to
\* read the claimed headers, decode returns DecodeError and no PacketRecord
\* is delivered to the sink.
C9_ShortFrameRejected ==
    (dpc = "done" /\ frame.caplen < Needed(frame)) => result = "DecodeError"

\* C10: for every frame, whatever its content and length, the decoder never
\* reads a byte at an offset >= captureLength of that frame.
C10_NoReadPastCapture ==
    \A o \in reads : o < frame.caplen

\* a frame that holds all the bytes of its claimed headers
ValidFrame(f) == f.caplen >= Needed(f)

\* C11: for every valid captured TCP or UDP frame, the decoded source_port and
\* dest_port are the 16-bit big-endian values at offsets 14 + ip_hl*4 and
\* 14 + ip_hl*4 + 2 of the frame, extracted the same way for TCP and UDP.
C11_PortsBigEndian ==
    (dpc = "done" /\ result = "delivered" /\ ValidFrame(frame)
       /\ frame.ip_p \in {IPPROTO_TCP, IPPROTO_UDP}) =>
        /\ decoded.source_port = frame.sport_hi * 256 + frame.sport_lo
        /\ decoded.dest_port = frame.dport_hi * 256 + frame.dport_lo

C11_Witness ==
    /\ dpc = "done" /\ result = "delivered" /\ ValidFrame(frame)
    /\ frame.ip_p = IPPROTO_UDP
    /\ frame.sport_hi = 0 /\ frame.sport_lo = 255 /\ decoded.source_port = 255
    /\ frame.dport_hi = 255 /\ frame.dport_lo = 0 /\ decoded.dest_port = 65280

\* C12: the decoder classifies by the IP protocol tag: 6 -> TCP, 17 -> UDP,
\* 1 -> ICMP, any other value -> Other; for every ICMP frame and every Other
\* frame both decoded ports are exactly 0.
C12_Classification ==
    (dpc = "done" /\ result = "delivered") =>
        /\ (frame.ip_p = 6) = (decoded.protocol = "TCP")
        /\ (frame.ip_p = 17) = (decoded.protocol = "UDP")
        /\ (frame.ip_p = 1) = (decoded.protocol = "ICMP")
        /\ (frame.ip_p \notin {1, 6, 17}) = (decoded.protocol = "Other")
        /\ decoded.protocol \in {"ICMP", "Other"} =>
               decoded.source_port = 0 /\ decoded.dest_port = 0

C12_Witness ==
    /\ dpc = "done" /\ result = "delivered"
    /\ frame.ip_p = 47 /\ decoded.protocol = "Other"
    /\ frame.sport_hi = 255 /\ frame.dport_lo = 255
    /\ decoded.source_port = 0 /\ decoded.dest_port = 0

\* C13: every record carries as interface the name of the capture session
\* (device) that captured the frame, also when several sessions on different
\* devices run concurrently.
C13_InterfaceOfSession ==
    \A i \in Sessions : labels[i] \subseteq {i}

\* ---- SpecAgg, per protocol
\* the completed updatePacket calls whose record has protocol p
CompletedOf(p) == {r \in DOMAIN completed : r.protocol = p}

\* C14: after any sequence of completed updatePacket calls, for every
\* protocol p, protocol_counts[p] is the number of recorded packets with
\* protocol p and protocol_bytes[p] is the sum of their lengths.
C14_PerProtocolExact ==
    Quiescent =>
        \A p \in {"TCP", "UDP", "ICMP", "Other"} :
            /\ Get(protocol_counts, p) = SumOver(completed, CompletedOf(p))
            /\ Get(protocol_bytes, p) = BytesOver(completed, CompletedOf(p))

\* C16: total_packets and total_bytes never decrease: no step of the capture
\* threads or of the dashboard thread makes either smaller than it was.
C16_Monotone ==
    [][total_packets' >= total_packets /\ total_bytes' >= total_bytes]_vars

\* ====================================================================
\* SpecConn: single-interface dashboard mode of main.cpp (lines 340-366):
\* one NetworkMonitor, so one thread inside pcap_loop calls updatePacket
\* ====================================================================
\* monitor = std::make_unique<NetworkMonitor>(dev): the one capture session
monitor == 1

ConnPorts == {1, 2}
\* the records of SpecConn: every combination of two addresses, two ports
\* and two protocols, so that for each of the five fields there are records
\* differing in that field only, and A->B as well as B->A
ConnRecords ==
    { [source_ip |-> a, dest_ip |-> b, source_port |-> sp, dest_port |-> dp,
       protocol |-> p, length |-> RecLength(p)] :
         a \in RecAddrs, b \in RecAddrs, sp \in ConnPorts, dp \in ConnPorts,
         p \in {"TCP", "UDP"} }

\* packetHandler line 229-230 on the one capture thread
\* faulty variant: frames handed over without waiting for the handler of
\* the previous frame to return
packetHandler_single_async(records) ==
    /\ issued[monitor] < MaxConnRecords
    /\ \E r \in records : info' = [info EXCEPT ![monitor] = r]
    /\ issued' = [issued EXCEPT ![monitor] = @ + 1]
    /\ upc' = [upc EXCEPT ![monitor] = "tp_load"]
    /\ UNCHANGED <<total_packets, total_bytes, protocol_counts, protocol_bytes,
                   connections, reg, completed, first_seen, rpc, seen,
                   lifeVars, decVars, mainVars, renVars, sideVars>>

\* pcap_loop calls the handler for one frame and waits for it to return
\* before it handles the next frame of the session
packetHandler_single(records) ==
    /\ upc[monitor] = "recv" /\ issued[monitor] < MaxConnRecords
    /\ \E r \in records : info' = [info EXCEPT ![monitor] = r]
    /\ issued' = [issued EXCEPT ![monitor] = @ + 1]
    /\ upc' = [upc EXCEPT ![monitor] = "tp_load"]
    /\ UNCHANGED <<total_packets, total_bytes, protocol_counts, protocol_bytes,
                   connections, reg, completed, first_seen, rpc, seen, lifeVars, decVars, mainVars, renVars, sideVars>>

NextConn == packetHandler_single(ConnRecords) \/ updatePacket(monitor)

SpecConn == InitAgg /\ [][NextConn]_vars

\* the completed calls whose record has exactly the five fields of key k
CompletedAt(k) ==
    {r \in DOMAIN completed :
        /\ r.source_ip = k.source_ip /\ r.dest_ip = k.dest_ip
        /\ r.source_port = k.source_port /\ r.dest_port = k.dest_port
        /\ r.protocol = k.protocol}

\* C15: two recorded packets increment the same connection counter if and
\* only if they agree on all five fields (source_ip, dest_ip, source_port,
\* dest_port, protocol): every counter counts exactly the recorded packets
\* with its five fields, and every recorded packet has such a counter; in
\* particular A->B and B->A are two keys.
C15_FiveFieldKey ==
    Quiescent =>
        /\ \A k \in DOMAIN connections :
               connections[k] = SumOver(completed, CompletedAt(k))
        /\ \A r \in DOMAIN completed : ConnectionInfo(r) \in DOMAIN connections

C15_Witness ==
    /\ Quiescent /\ issued[monitor] = 2
    /\ \E k \in DOMAIN connections, j \in DOMAIN connections :
          /\ k.source_ip = "A" /\ k.dest_ip = "B"
          /\ j.source_ip = "B" /\ j.dest_ip = "A"
          /\ k.source_port = j.dest_port /\ k.dest_port = j.source_port
          /\ k.protocol = j.protocol
          /\ connections[k] = 1 /\ connections[j] = 1

\* ====================================================================
\* SpecMain: main() of main.cpp from argument parsing to the end of a
\* single-interface run; a multi-interface run is followed up to the first
\* capture session (SpecLife continues from there)
\* ====================================================================
\* args: what the argument loop (lines 227-245) leaves in the locals.
\*   early: "help" (--help seen), "list" (--list seen) or "none"
\*   interface_list: "" (no --interfaces), "blank" (only commas and blanks)
\*                   or "names" (at least one name)
\* host: what the machine and the operator answer.
\*   enumeration: pcap_findalldevs fails, finds nothing, or finds devices
\*   choice: the operator's input at a prompt: in range, out of range, or
\*           (multi selection) some entries in range and some not
\*   openable: whether pcap_open_live succeeds on the chosen device
InitMain ==
    /\ args \in [early : {"none", "help", "list"}, multi_mode : BOOLEAN,
                 interactive_mode : BOOLEAN,
                 interface_list : {"", "blank", "names"}, dev_given : BOOLEAN]
    /\ host \in [enumeration : {"error", "empty", "devices"},
                 choice : {"valid", "invalid", "mixed"}, openable : BOOLEAN]
    /\ (host.choice = "mixed" => args.multi_mode)
    /\ cpc = "parse" /\ interfaces = "unset" /\ dev_char = "nullptr"
    /\ sessions_made = FALSE /\ devices_opened = FALSE
    /\ main_end = "running" /\ main_code = 0 /\ interrupted = FALSE
    /\ AggInit /\ LifeIdle /\ DecIdle /\ RenIdle /\ SideIdle

\* parseInterfaceList: the tokens that are not all blanks
parseInterfaceList(list) == IF list = "names" THEN "some" ELSE "empty"

\* NetworkMonitor::listInterfaces: empty on pcap_findalldevs == -1 and when
\* no device is found
listInterfaces(h) == IF h.enumeration = "devices" THEN "some" ELSE "empty"

\* faulty variant: a selection that keeps out-of-range entries
selectMultipleInterfaces_unchecked(h) == listInterfaces(h)

\* selectMultipleInterfaces: out-of-range entries are ignored with a warning
selectMultipleInterfaces(h) ==
    IF listInterfaces(h) = "empty" THEN "empty"
    ELSE IF h.choice = "invalid" THEN "empty" ELSE "some"

\* selectInterface: "" when nothing is listed or the choice is out of range
selectInterface(h) ==
    IF listInterfaces(h) = "empty" THEN "empty"
    ELSE IF h.choice = "valid" THEN "some" ELSE "empty"

\* return c from main
Return(c) ==
    /\ main_end' = "returned" /\ main_code' = c
    /\ UNCHANGED <<args, host, cpc, interfaces, dev_char, sessions_made,
                   devices_opened, interrupted, aggVars, lifeVars, decVars, renVars, sideVars>>

\* main moves on to position next
Goto(next) ==
    /\ cpc' = next
    /\ UNCHANGED <<args, host, sessions_made, devices_opened, main_end,
                   main_code, interrupted, aggVars, lifeVars, decVars, renVars, sideVars>>

AtMain(pos) == main_end = "running" /\ cpc = pos

\* lines 227-245: --help prints the help and returns 0 from inside the loop
main_help ==
    /\ AtMain("parse") /\ args.early = "help"
    /\ Return(0)

\* lines 227-245: the loop ends; dev_char is the first bare argument, if any
main_parsed ==
    /\ AtMain("parse") /\ args.early # "help"
    /\ dev_char' = IF args.dev_given THEN "set" ELSE "nullptr"
    /\ Goto("mode") /\ UNCHANGED interfaces

\* lines 248-251: if (list_mode) { listInterfaces(); return 0; }
main_list_mode ==
    /\ AtMain("mode") /\ args.early = "list"
    /\ Return(0)

\* lines 257-259: interfaces = parseInterfaceList(interface_list)
main_multi_list ==
    /\ AtMain("mode") /\ args.early = "none" /\ args.multi_mode
    /\ args.interface_list # ""
    /\ interfaces' = parseInterfaceList(args.interface_list)
    /\ Goto("multi_check") /\ UNCHANGED dev_char

\* lines 260-262: interfaces = selectMultipleInterfaces()
main_multi_interactive ==
    /\ AtMain("mode") /\ args.early = "none" /\ args.multi_mode
    /\ args.interface_list = "" /\ args.interactive_mode
    /\ interfaces' = selectMultipleInterfaces(host)
    /\ Goto("multi_check") /\ UNCHANGED dev_char

\* lines 263-267: neither --interfaces nor --interactive: return 1
main_multi_no_source ==
    /\ AtMain("mode") /\ args.early = "none" /\ args.multi_mode
    /\ args.interface_list = "" /\ ~args.interactive_mode
    /\ Return(1)

\* lines 269-272: if (interfaces.empty()) return 1
main_multi_empty ==
    /\ AtMain("multi_check") /\ interfaces = "empty"
    /\ Return(1)

\* line 275: multi_monitor = std::make_unique<MultiMonitor>(...); the
\* MultiMonitor constructor creates no NetworkMonitor and opens nothing
main_multi_create ==
    /\ AtMain("multi_check") /\ interfaces = "some"
    /\ Goto("multi_capture") /\ UNCHANGED <<interfaces, dev_char>>

\* multi_monitor->startCapture(): the first capture thread constructs its
\* NetworkMonitor, which calls pcap_open_live.  On failure the constructor
\* calls exit(EXIT_FAILURE) on the capture thread; the static destructor of
\* multi_monitor then destroys joinable threads: std::terminate.
captureThread_monitor ==
    /\ AtMain("multi_capture")
    /\ sessions_made' = TRUE /\ devices_opened' = host.openable
    /\ cpc' = "multi_running"
    /\ main_end' = IF host.openable THEN "running" ELSE "aborted"
    /\ UNCHANGED <<args, host, interfaces, dev_char, main_code, interrupted,
                   aggVars, lifeVars, decVars, renVars, sideVars>>

\* lines 313-317: selected = selectInterface(); if (selected.empty()) return 1
main_interactive_none ==
    /\ AtMain("mode") /\ args.early = "none" /\ ~args.multi_mode
    /\ args.interactive_mode /\ selectInterface(host) = "empty"
    /\ Return(1)

\* line 318: dev_char = selected.c_str()
main_interactive_selected ==
    /\ AtMain("mode") /\ args.early = "none" /\ ~args.multi_mode
    /\ args.interactive_mode /\ selectInterface(host) = "some"
    /\ dev_char' = "set"
    /\ Goto("device") /\ UNCHANGED interfaces

\* line 313: if (interactive_mode) not taken
main_not_interactive ==
    /\ AtMain("mode") /\ args.early = "none" /\ ~args.multi_mode
    /\ ~args.interactive_mode
    /\ Goto("device") /\ UNCHANGED <<interfaces, dev_char>>

\* lines 325-328: pcap_findalldevs(&alldevs, errbuf) == -1: return 2
main_default_error ==
    /\ AtMain("device") /\ dev_char = "nullptr" /\ host.enumeration = "error"
    /\ Return(2)

\* lines 330-333: alldevs == nullptr: return 2
main_default_none ==
    /\ AtMain("device") /\ dev_char = "nullptr" /\ host.enumeration = "empty"
    /\ Return(2)

\* lines 335-336: dev_char = alldevs->name
main_default_found ==
    /\ AtMain("device") /\ dev_char = "nullptr" /\ host.enumeration = "devices"
    /\ dev_char' = "set"
    /\ Goto("construct") /\ UNCHANGED interfaces

\* line 322: if (dev_char == nullptr) not taken
main_device_given ==
    /\ AtMain("device") /\ dev_char = "set"
    /\ Goto("construct") /\ UNCHANGED <<interfaces, dev_char>>

\* line 340: monitor = std::make_unique<NetworkMonitor>(device, ...);
\* pcap_open_live succeeds, then monitor->startCapture(-1) enters pcap_loop
main_monitor_ok ==
    /\ AtMain("construct") /\ host.openable
    /\ sessions_made' = TRUE /\ devices_opened' = TRUE
    /\ cpc' = "capture"
    /\ UNCHANGED <<args, host, interfaces, dev_char, main_end, main_code,
                   interrupted, aggVars, lifeVars, decVars, renVars, sideVars>>

\* line 340 with pcap_open_live returning nullptr: the constructor prints
\* "Couldn't open device" and calls exit(EXIT_FAILURE) (part_001 105-108)
main_monitor_fail ==
    /\ AtMain("construct") /\ ~host.openable
    /\ sessions_made' = TRUE
    /\ main_end' = "exited" /\ main_code' = EXIT_FAILURE
    /\ UNCHANGED <<args, host, cpc, interfaces, dev_char, devices_opened,
                   interrupted, aggVars, lifeVars, decVars, renVars, sideVars>>

\* lines 357-375: pcap_loop returns (it only does on an error), startCapture
\* returns, with --dashboard the dashboard thread is joined: return 0
main_capture_returns ==
    /\ AtMain("capture")
    /\ Return(0)

\* signalHandler (lines 36-43) before or during a single-interface capture:
\* running = false; exit(signum)
signalHandler_main ==
    /\ main_end = "running" /\ cpc # "multi_running"
    /\ interrupted' = TRUE
    /\ main_end' = "exited" /\ main_code' = SIGINT
    /\ UNCHANGED <<args, host, cpc, interfaces, dev_char, sessions_made,
                   devices_opened, aggVars, lifeVars, decVars, renVars, sideVars>>

NextMain ==
    \/ main_help \/ main_parsed \/ main_list_mode
    \/ main_multi_list \/ main_multi_interactive \/ main_multi_no_source
    \/ main_multi_empty \/ main_multi_create \/ captureThread_monitor
    \/ main_interactive_none \/ main_interactive_selected
    \/ main_not_interactive
    \/ main_default_error \/ main_default_none \/ main_default_found
    \/ main_device_given
    \/ main_monitor_ok \/ main_monitor_fail \/ main_capture_returns
    \/ signalHandler_main

SpecMain == InitMain /\ [][NextMain]_vars

\* a capture run was asked for (neither --help nor --list) and the
\* configuration resolves to no interface: multi-interface mode with neither
\* a list nor interactive selection, a list with no name in it, a multi
\* selection with nothing listed or no entry in range, or a single selection
\* with nothing listed or the choice out of range
InvalidConfig ==
    /\ args.early = "none"
    /\ \/ /\ args.multi_mode /\ args.interface_list = ""
          /\ ~args.interactive_mode
       \/ args.multi_mode /\ args.interface_list = "blank"
       \/ /\ args.multi_mode /\ args.interface_list = ""
          /\ args.interactive_mode
          /\ (host.enumeration # "devices" \/ host.choice = "invalid")
       \/ /\ ~args.multi_mode /\ args.interactive_mode
          /\ (host.enumeration # "devices" \/ host.choice # "valid")

\* C17: an invalid configuration (multi-interface mode with neither an
\* interface list nor interactive selection, an empty resolved interface
\* list, or an invalid interactive selection) ends the run with exit code 1
\* before any capture session is created or any device is opened.
C17_InvalidConfigExit1 ==
    InvalidConfig =>
        /\ ~sessions_made /\ ~devices_opened
        /\ cpc \notin {"multi_capture", "multi_running", "construct", "capture"}
        /\ (main_end # "running" /\ ~interrupted) =>
               (main_end = "returned" /\ main_code = 1)

C17_Witness ==
    /\ InvalidConfig /\ args.multi_mode /\ args.interactive_mode
    /\ host.enumeration = "devices" /\ host.choice = "invalid"
    /\ main_end = "returned" /\ main_code = 1 /\ ~sessions_made

\* the capture primitive failed to initialise: the default-device lookup
\* found no device or failed, or the NetworkMonitor constructor ran
\* pcap_open_live and got no handle
PrimitiveFailed ==
    \/ /\ args.early = "none" /\ ~args.multi_mode /\ ~args.interactive_mode
       /\ ~args.dev_given /\ host.enumeration # "devices"
    \/ sessions_made /\ ~devices_opened

\* C18: every capture primitive initialization failure (device enumeration
\* fails, no device is found, or the selected device cannot be opened) ends
\* the process with exit code 2.
C18_PrimitiveFailureExit2 ==
    (main_end # "running" /\ ~interrupted /\ PrimitiveFailed) =>
        (main_end \in {"returned", "exited"} /\ main_code = 2)

\* C19: a normal shutdown, including the operator stopping the running
\* monitor with Ctrl+C (SIGINT), ends the process with exit code 0.
C19_NormalShutdownExit0 ==
    (main_end # "running" /\ cpc = "capture") =>
        (main_end \in {"returned", "exited"} /\ main_code = 0)

\* ====================================================================
\* SpecRender: single-interface dashboard mode with the clock running:
\* one capture thread records packets while the dashboard thread renders
\* ====================================================================
\* one more whole second has passed since start_time
steady_clock_tick ==
    /\ elapsed < MaxElapsed
    /\ elapsed' = elapsed + 1
    /\ UNCHANGED <<aggVars, lifeVars, decVars, mainVars, sideVars>>

\* the records rendered are those of one source address, TCP and UDP
NextRender ==
    \/ packetHandler_single({r \in PacketInfos : r.source_ip = "A"})
    \/ updatePacket(monitor)
    \/ display \/ steady_clock_tick

SpecRender == InitAgg /\ [][NextRender]_vars

\* drawBar: bar_length, and the divisor of the division it performs (none
\* when max_value is 0)
drawBar(value, max_value, width) ==
    IF max_value > 0
    THEN [bar_length |-> (value * width) \div max_value, divisor |-> {max_value}]
    ELSE [bar_length |-> 0, divisor |-> {}]

\* the bars one pass draws: one per protocol_counts entry, scaled to max_count
Bars(sn) ==
    [p \in DOMAIN sn.protocol_counts |->
        drawBar(sn.protocol_counts[p], sn.max_count, BAR_WIDTH)]

\* every divisor one pass divides by: duration (twice) and drawBar's
Divisors(sn) ==
    {sn.duration} \cup UNION {Bars(sn)[p].divisor : p \in DOMAIN Bars(sn)}

\* static_cast<double>(n) / duration, as whole part and remainder
Rate(n, d) == [whole |-> n \div d, rest |-> n % d]

\* the pass has executed displayTrafficStats' first lines
Sampled == rpc \in {"stats_bytes", "proto", "proto_bars", "conns", "shown"}

\* C20: the renderer never divides by zero: the seconds used for packets/sec
\* and bytes/sec are max(1, whole seconds since start_time), no divisor of a
\* pass is 0, and a pass over a dashboard that has recorded nothing shows
\* zero counters, zero rates and no bar.
C20_NoDivisionByZero ==
    Sampled =>
        /\ 0 \notin Divisors(seen)
        /\ seen.duration = IF seen.elapsed > 1 THEN seen.elapsed ELSE 1
        /\ (rpc = "shown" /\ issued[monitor] = 0) =>
               /\ seen.total_packets = 0 /\ seen.total_bytes = 0
               /\ Rate(seen.total_packets, seen.duration).whole = 0
               /\ Rate(seen.total_packets, seen.duration).rest = 0
               /\ Rate(seen.total_bytes, seen.duration).whole = 0
               /\ Rate(seen.total_bytes, seen.duration).rest = 0
               /\ Bars(seen) = EmptyMap
               /\ seen.connections = EmptyMap

C20_Witness ==
    /\ rpc = "shown" /\ issued[monitor] = 0
    /\ seen.elapsed = 0 /\ seen.duration = 1
    /\ seen.total_packets = 0 /\ Bars(seen) = EmptyMap

\* ====================================================================
\* SpecTop: Dashboard::display over a connection table that is not being
\* updated (the capture thread is blocked inside pcap_loop, no frame arrives)
\* ====================================================================
\* connection i of a table: the keys differ in the source port, so the
\* std::map iterates them by increasing i
TopKey(i) == [source_ip |-> "A", dest_ip |-> "B", source_port |-> i,
              dest_port |-> 1, protocol |-> "TCP"]
TopKeys(n) == {TopKey(i) : i \in 1..n}

RECURSIVE Perms(_)
Perms(S) ==
    IF S = {} THEN {<< >>}
    ELSE UNION { {<<k>> \o t : t \in Perms(S \ {k})} : k \in S }

\* the tables rendered: every table of up to 3 connections with counts 1 or
\* 2, inserted in every order; and tables of MaxConns connections (more
\* than the 10 listed) with increasing, decreasing and repeating counts,
\* inserted by increasing or by decreasing key
TopInputs ==
    UNION { {[conns |-> c, order |-> o] :
                c \in [TopKeys(n) -> 1..2], o \in Perms(TopKeys(n))} :
            n \in 0..3 }
    \cup
    { [conns |-> c, order |-> o] :
        c \in { [k \in TopKeys(MaxConns) |-> k.source_port],
                [k \in TopKeys(MaxConns) |-> MaxConns + 1 - k.source_port],
                [k \in TopKeys(MaxConns) |-> 1 + (k.source_port % 3)] },
        o \in { [i \in 1..MaxConns |-> TopKey(i)],
                [i \in 1..MaxConns |-> TopKey(MaxConns + 1 - i)] } }

\* the Dashboard after the capture thread has recorded, one call at a time,
\* conns[k] TCP packets of connection k, the connections first seen in the
\* order `order`
InitTop ==
    /\ \E inp \in TopInputs :
        /\ connections = inp.conns /\ first_seen = inp.order
        /\ total_packets = SumMap(inp.conns)
        /\ total_bytes = SumMap(inp.conns) * RecLength("TCP")
        /\ protocol_counts = IF inp.conns = EmptyMap THEN EmptyMap
                             ELSE Put(EmptyMap, "TCP", SumMap(inp.conns))
        /\ protocol_bytes = IF inp.conns = EmptyMap THEN EmptyMap
                            ELSE Put(EmptyMap, "TCP",
                                     SumMap(inp.conns) * RecLength("TCP"))
        /\ completed = [r \in {[source_ip |-> k.source_ip, dest_ip |-> k.dest_ip,
                                source_port |-> k.source_port,
                                dest_port |-> k.dest_port, protocol |-> k.protocol,
                                length |-> RecLength(k.protocol)] :
                               k \in DOMAIN inp.conns} |->
                          inp.conns[ConnectionInfo(r)]]
        /\ issued = [t \in Sessions |->
                        IF t = monitor THEN SumMap(inp.conns) ELSE 0]
    /\ upc = [t \in Sessions |-> "recv"]
    /\ reg = [t \in Sessions |-> 0]
    /\ info = [t \in Sessions |-> NoInfo]
    /\ rpc = "sleep" /\ seen = NoSeen
    /\ LifeIdle /\ DecIdle /\ MainIdle /\ RenIdle /\ SideIdle

SpecTop == InitTop /\ [][display]_vars

\* position of key k in the insertion history
FirstSeenAt(k) == CHOOSE n \in 1..Len(first_seen) : first_seen[n] = k

\* C21: the renderer lists at most 10 connections, in descending packet-count
\* order, and every listed connection has a packet count >= that of every
\* connection not listed.
C21_TopTenDescending ==
    rpc = "shown" =>
        LET l == seen.listed
            m == seen.connections
        IN  /\ Len(l) <= 10
            /\ \A i \in 1..Len(l) : l[i] \in DOMAIN m
            /\ \A i \in 1..Len(l), j \in 1..Len(l) : i # j => l[i] # l[j]
            /\ \A i \in 1..Len(l), j \in 1..Len(l) : i < j => m[l[i]] >= m[l[j]]
            /\ \A i \in 1..Len(l) :
                 \A u \in DOMAIN m \ {l[j] : j \in 1..Len(l)} : m[l[i]] >= m[u]

C21_Witness ==
    /\ rpc = "shown" /\ Len(seen.listed) = 10
    /\ Cardinality(DOMAIN seen.connections) > 10
    /\ \E u \in DOMAIN seen.connections \ {seen.listed[j] : j \in 1..10} :
          seen.connections[u] = seen.connections[seen.listed[10]]
    /\ seen.connections[seen.listed[1]] > seen.connections[seen.listed[10]]

\* C22: among connections with equal packet count, the renderer orders, and
\* selects for the top 10, by first-seen insertion order: the connection whose
\* first packet was recorded earlier is listed first.
C22_TiesByInsertionOrder ==
    rpc = "shown" =>
        LET l == seen.listed
            m == seen.connections
        IN  /\ \A i \in 1..Len(l), j \in 1..Len(l) :
                 (i < j /\ m[l[i]] = m[l[j]]) =>
                     FirstSeenAt(l[i]) < FirstSeenAt(l[j])
            /\ \A i \in 1..Len(l) :
                 \A u \in DOMAIN m \ {l[j] : j \in 1..Len(l)} :
                     m[l[i]] = m[u] => FirstSeenAt(l[i]) < FirstSeenAt(u)

\* C23: rendering does not mutate aggregator state: no step of
\* Dashboard::display changes total_packets, total_bytes, protocol_counts,
\* protocol_bytes (their key sets included) or connections.
C23_RenderReadOnly ==
    [][rpc' # rpc =>
         UNCHANGED <<total_packets, total_bytes, protocol_counts,
                     protocol_bytes, connections>>]_vars

\* what the Dashboard keeps per interface: it has no per-interface member
\* (dashboard.h private members) and updatePacket never reads info.interface
InterfaceStatistics == EmptyMap

\* C24: in multi-interface dashboard mode the aggregator keeps per-interface
\* counters: after any sequence of completed updatePacket calls the counter of
\* interface t is the number of packets recorded by session t, so every
\* interface that produced a record appears in the statistics.
C24_PerInterfaceCounters ==
    Quiescent =>
        \A t \in Sessions :
            /\ Get(InterfaceStatistics, t) = issued[t]
            /\ issued[t] > 0 => t \in DOMAIN InterfaceStatistics

\* C25: a single malformed or truncated frame never ends the session's
\* receive loop: nothing is delivered to the sink for it and the handler
\* returns to pcap_loop, which goes on with the following frames.
C25_BadFrameSkipped ==
    (dpc = "done" /\ ~ValidFrame(frame)) =>
        (result # "delivered" /\ result # "fault")

\* what MultiMonitor keeps about a session that has ended: captureThread
\* returns void, the value pcap_loop returned is dropped in
\* NetworkMonitor::startCapture, and MultiMonitor::monitors is never written
SessionOutcomes == EmptyMap

\* C26: the orchestrator records a terminal outcome (Stopped or Failed) for
\* every session it launched; once startCapture has returned, exactly one
\* outcome per session is available.
C26_OutcomePerSession ==
    StartReturned =>
        \A i \in Sessions :
            launched[i] =>
                (i \in DOMAIN SessionOutcomes /\ SessionOutcomes[i] \in Terminal)

\* C27: an unrecoverable receive failure in one Running session ends only
\* that session (it becomes Failed): the step starts no exit, keeps the
\* process alive and changes no other session; a session that is Running
\* next to a session whose receive loop has failed can still be handed frames.
C27_ReceiveFailureIsolated ==
    /\ [][ \A i \in Sessions :
             (state[i] = "Running" /\ state'[i] = "Failed") =>
                 /\ alive' /\ epc' = epc /\ exit_cause' = exit_cause
                 /\ \A j \in Sessions \ {i} :
                      /\ state'[j] = state[j] /\ handle'[j] = handle[j]
                      /\ delivered'[j] = delivered[j] ]_vars
    /\ [](\A i, j \in Sessions :
            (/\ i # j /\ state[i] = "Failed" /\ openable[i]
             /\ state[j] = "Running" /\ CanRun(CaptureThread(j))
             /\ delivered[j] < MaxFrames)
                => ENABLED pcap_loop_frame(j))

C27_Witness ==
    \E i, j \in Sessions :
        /\ i # j /\ state[i] = "Failed" /\ openable[i] /\ handle[i] = "closed"
        /\ state[j] = "Running" /\ alive /\ epc = "none"
        /\ delivered[i] = 0 /\ delivered[j] = MaxFrames

\* C28: within one interface, records reach the sink in arrival order: when
\* the handler is called for a frame, the records of all earlier frames of
\* the session have been consumed by the sink.
C28_ArrivalOrder ==
    [][ issued'[monitor] # issued[monitor] =>
          (upc[monitor] = "recv" /\ SumMap(completed) = issued[monitor]) ]_vars

C28_Witness ==
    /\ issued[monitor] = 2 /\ SumMap(completed) = 1
    /\ upc[monitor] = "tp_load"

\* C29: every decoded record is consumed by exactly one sink, the console or
\* the aggregator, never both and never neither, and all sessions of one run
\* use the same sink.
C29_ExactlyOneSink ==
    /\ \A i \in Sessions : sunk[i].printed + sunk[i].recorded = delivered[i]
    /\ \A i, j \in Sessions : ~(sunk[i].printed > 0 /\ sunk[j].recorded > 0)

C29_Witness ==
    /\ use_dashboard
    /\ \A i \in Sessions : sunk[i].recorded = MaxFrames /\ sunk[i].printed = 0

\* C30: decoding uses no state shared between sessions: what the handler of
\* a Running session makes of a frame (here the interface it stamps on the
\* record) is not changed by other sessions being created or decoding.
C30_NoSharedDecodeState ==
    [][ (\E i \in Sessions : state[i] = "Running" /\ state'[i] = "Running") =>
          current_device' = current_device ]_vars

\* C31: the length of a decoded record is the captured length of the frame,
\* also for a frame whose length on the wire exceeds the captured bytes.
C31_LengthIsCaptured ==
    (dpc = "done" /\ result = "delivered") => decoded.length = frame.caplen

\* C37: after any sequence of completed updatePacket calls every key of
\* connections has a count of at least 1 that equals the number of recorded
\* packets with its five fields, and the counts of all connections add up to
\* total_packets.
C37_ConnectionCountsExact ==
    Quiescent =>
        /\ \A k \in DOMAIN connections :
               /\ connections[k] >= 1
               /\ connections[k] = SumOver(completed, CompletedAt(k))
        /\ SumMap(connections) = total_packets

\* C34: whenever the MultiMonitor is destroyed, also during the exit() that
\* the SIGINT handler calls while capture is running, none of its capture
\* threads is still running or joinable.
C34_DestructorCleansThreads ==
    epc = "dead" =>
        \A i \in Sessions : launched[i] => (tdone[i] /\ joined[i])

\* C39: startCapture called while the running flag is set launches no thread
\* and changes no state of the MultiMonitor, stopCapture called while the
\* flag is clear is a no-op, and outside the body of startCapture the running
\* flag is set exactly when at least one capture thread of this MultiMonitor
\* is alive.
C39_RunningFlagGuards ==
    /\ [][ /\ (mpc = "start" /\ mm_running /\ mpc' # mpc) =>
                 UNCHANGED <<mm_running, launched, joined>>
           /\ (epc = "destruct" /\ ~mm_running /\ epc' # epc) =>
                 UNCHANGED <<mm_running, launched, joined, stop_requested>> ]_vars
    /\ [] ( (mpc = "start" \/ StartReturned) =>
              (mm_running <=> \E i \in Sessions : launched[i] /\ ~tdone[i]) )

\* ---- single-interface run of main with its dashboard thread (main.cpp
\* 340-375).  The NetworkMonitor has been constructed and, with --dashboard,
\* the dashboard thread created; main is about to call monitor->startCapture
InitDash ==
    /\ mpc = "capture" /\ mm_running = FALSE /\ g_running = TRUE
    /\ launched = [i \in Sessions |-> FALSE]
    /\ joined = [i \in Sessions |-> FALSE]
    /\ tdone = [i \in Sessions |-> FALSE]
    /\ state = [i \in Sessions |-> IF i = monitor THEN "Running" ELSE "Idle"]
    /\ handle = [i \in Sessions |-> IF i = monitor THEN "open" ELSE "none"]
    /\ openable = [i \in Sessions |-> TRUE]
    /\ delivered = [i \in Sessions |-> 0]
    /\ current_device = monitor
    /\ epc = "none" /\ exiter = NoThread /\ exit_cause = "none"
    /\ exit_code = 0 /\ aborted = FALSE
    /\ alive = TRUE /\ stop_returned = FALSE /\ stop_requested = FALSE
    /\ use_dashboard \in BOOLEAN
    /\ dash_thread = IF use_dashboard THEN "running" ELSE "none"
    /\ labels = [i \in Sessions |-> {}]
    /\ dashboard = IF use_dashboard THEN "set" ELSE "nullptr"
    /\ sunk = [i \in Sessions |-> [printed |-> 0, recorded |-> 0]]
    /\ AggInit /\ DecIdle /\ MainIdle /\ RenIdle /\ SideIdle

\* std::thread dashboard_thread([&]() {
\*     while (running) { dashboard_ptr->display(); sleep_for(seconds(1)); } });
\* the thread function is entered
dashboard_thread_start ==
    /\ alive /\ dash_thread = "running" /\ dloc = "none"
    /\ dloc' = "test"
    /\ UNCHANGED <<lifeVars, aggVars, decVars, mainVars, renVars, list_arg,
                   mm_interfaces, capture_threads, spc, ppc, line_owners>>

\* faulty variant: a pass is rendered only after a frame has been delivered
dashboard_thread_display_on_packet ==
    /\ alive /\ dash_thread = "running" /\ dloc = "test" /\ g_running
    /\ delivered[monitor] > 0
    /\ dloc' = "sleep"
    /\ UNCHANGED <<lifeVars, aggVars, decVars, mainVars, renVars, list_arg,
                   mm_interfaces, capture_threads, spc, ppc, line_owners>>

\* while (running) is true: dashboard_ptr->display()
dashboard_thread_display ==
    /\ alive /\ dash_thread = "running" /\ dloc = "test" /\ g_running
    /\ dloc' = "sleep"
    /\ UNCHANGED <<lifeVars, aggVars, decVars, mainVars, renVars, list_arg,
                   mm_interfaces, capture_threads, spc, ppc, line_owners>>

\* std::this_thread::sleep_for(std::chrono::seconds(1)) returns
dashboard_thread_sleep ==
    /\ alive /\ dash_thread = "running" /\ dloc = "sleep"
    /\ dloc' = "test"
    /\ UNCHANGED <<lifeVars, aggVars, decVars, mainVars, renVars, list_arg,
                   mm_interfaces, capture_threads, spc, ppc, line_owners>>

\* while (running) is false: the thread function returns
dashboard_thread_leave ==
    /\ dloc = "test"
    /\ dashboard_thread_exit

\* NetworkMonitor::startCapture on the main thread: pcap_loop calls
\* packetHandler for one more frame
NetworkMonitor_startCapture_frame ==
    /\ CanRun(MainThread) /\ mpc = "capture"
    /\ delivered[monitor] < MaxFrames
    /\ delivered' = [delivered EXCEPT ![monitor] = @ + 1]
    /\ labels' = [labels EXCEPT ![monitor] = @ \cup {current_device}]
    /\ sunk' = [sunk EXCEPT
                  ![monitor].printed = @ + (IF "console" \in Sink(dashboard) THEN 1 ELSE 0),
                  ![monitor].recorded = @ + (IF "dashboard" \in Sink(dashboard) THEN 1 ELSE 0)]
    /\ UNCHANGED <<mpc, mm_running, g_running, launched, joined, tdone, state,
                   handle, openable, current_device, epc, exiter, exit_cause,
                   exit_code, aborted, alive, stop_returned, stop_requested,
                   dash_thread, use_dashboard, dashboard,
                   aggVars, decVars, mainVars, renVars, sideVars>>

\* pcap_loop returns (with cnt = -1 only on a receive error) and
\* NetworkMonitor::startCapture returns to main
NetworkMonitor_startCapture_returns ==
    /\ CanRun(MainThread) /\ mpc = "capture"
    /\ mpc' = "returned"
    /\ UNCHANGED <<mm_running, g_running, launched, joined, tdone, state, handle,
                   openable, delivered, current_device, epc, exiter, exit_cause,
                   exit_code, aborted, alive, stop_returned, stop_requested,
                   dash_thread, use_dashboard, labels, dashboard, sunk,
                   aggVars, decVars, mainVars, renVars, sideVars>>

\* exit() in a single-interface run: multi_monitor is null, the static
\* unique_ptr<NetworkMonitor> is destroyed (pcap_close) and the process ends
\* with the status passed to exit()
exit_single ==
    /\ alive /\ epc = "destruct"
    /\ handle' = [handle EXCEPT ![monitor] = NetworkMonitor_dtor(@)]
    /\ alive' = FALSE
    /\ epc' = "dead"
    /\ UNCHANGED <<mpc, mm_running, g_running, launched, joined, tdone, state,
                   openable, delivered, current_device, exiter, exit_cause,
                   exit_code, aborted, stop_returned, stop_requested,
                   dash_thread, use_dashboard, labels, dashboard, sunk,
                   aggVars, decVars, mainVars, renVars, sideVars>>

NextDash ==
    \/ dashboard_thread_start
    \/ dashboard_thread_display
    \/ dashboard_thread_sleep
    \/ dashboard_thread_leave
    \/ NetworkMonitor_startCapture_frame
    \/ NetworkMonitor_startCapture_returns
    \/ main_after_capture
    \/ main_return
    \/ signalHandler(MainThread)
    \/ exit_single

SpecDash == InitDash /\ [][NextDash]_vars

\* The scheduler runs every thread that can take a step, sleep_for returns
\* and exit() runs to completion.  Frames, receive errors and SIGINT come
\* from outside and are not owed.
FairSpecDash ==
    /\ SpecDash
    /\ WF_vars(dashboard_thread_start)
    /\ WF_vars(dashboard_thread_display)
    /\ WF_vars(dashboard_thread_sleep)
    /\ WF_vars(dashboard_thread_leave)
    /\ WF_vars(main_after_capture)
    /\ WF_vars(main_return)
    /\ WF_vars(exit_single)

\* C38: in dashboard mode the renderer thread ticks independently of packet
\* arrival: at its loop test with the running flag set the next pass can
\* always be rendered, whether or not a frame has arrived, and it is
\* rendered unless the flag is cleared or the process ends; and once
\* startCapture has returned, unless a SIGINT ends the process first, the
\* renderer thread eventually stops and main returns 0.
C38_RendererTicksAndStops ==
    /\ [] ( (alive /\ dash_thread = "running" /\ dloc = "test" /\ g_running)
              => ENABLED dashboard_thread_display )
    /\ (alive /\ dash_thread = "running" /\ dloc = "test" /\ g_running)
          ~> (dloc = "sleep" \/ ~g_running \/ ~alive)
    /\ (use_dashboard /\ mpc = "returned")
          ~> \/ /\ dash_thread = "finished" /\ mpc = "exited"
                /\ exit_cause = "main_return" /\ exit_code = 0
                /\ epc = "dead" /\ ~aborted
             \/ exit_cause = "sigint"

C38_Witness ==
    /\ use_dashboard /\ delivered[monitor] = 0
    /\ dash_thread = "finished" /\ mpc = "exited"
    /\ exit_cause = "main_return" /\ exit_code = 0
    /\ epc = "dead" /\ ~aborted

\* C36: each per-protocol bar of a pass has floor(count * 40 / maxCount)
\* cells, where count is the protocol's displayed count and maxCount the
\* largest displayed count: the length is within 0..40, a protocol whose
\* count equals maxCount gets the full 40 cells, and the length is 0 when
\* maxCount is 0.
C36_BarLength ==
    rpc \in {"conns", "shown"} =>
        \A p \in DOMAIN seen.protocol_counts :
            LET count == seen.protocol_counts[p]
                maxCount == MaxCount(seen.protocol_counts)
                cells == Bars(seen)[p].bar_length
            IN  /\ cells \in 0..BAR_WIDTH
                /\ cells = IF maxCount = 0 THEN 0
                           ELSE (count * BAR_WIDTH) \div maxCount
                /\ (maxCount > 0 /\ count = maxCount) => cells = BAR_WIDTH

\* ---- one connection whose packets are captured by several sessions (a
\* forwarded flow seen on two interfaces), up to MaxConnRecords per session
FlowRecords == {r \in PacketInfos : r.source_ip = "A" /\ r.protocol = "TCP"}

\* packetHandler line 229-230 on capture thread t: the next record of the
\* flow enters dashboard->updatePacket
packetHandler_flow(t) ==
    /\ upc[t] = "recv" /\ issued[t] < MaxConnRecords
    /\ \E r \in FlowRecords : info' = [info EXCEPT ![t] = r]
    /\ issued' = [issued EXCEPT ![t] = @ + 1]
    /\ upc' = [upc EXCEPT ![t] = "tp_load"]
    /\ UNCHANGED <<total_packets, total_bytes, protocol_counts, protocol_bytes,
                   connections, reg, completed, first_seen, rpc, seen,
                   lifeVars, decVars, mainVars, renVars, sideVars>>

NextFlow ==
    \/ \E t \in Sessions : packetHandler_flow(t)
    \/ \E t \in Sessions : updatePacket(t)

SpecFlow == InitAgg /\ [][NextFlow]_vars

\* C32: no eviction: once a key is present in connections it stays present
\* and its count never decreases.
C32_NoEviction ==
    [][ \A k \in DOMAIN connections :
            /\ k \in DOMAIN connections'
            /\ connections'[k] >= connections[k] ]_vars

\* ---- multi-interface mode with --interfaces: parseInterfaceList and the
\* thread-creating loop of MultiMonitor::startCapture.  The argument is
\* given as the tokens std::getline(ss, token, ',') yields; a token is a
\* sequence of characters, " " a blank, "a" and "b" letters of device names
InitStart ==
    /\ list_arg \in UNION {[1..n -> UNION {[1..k -> {" ", "a", "b"}] : k \in 0..MaxTokenLen}] :
                             n \in 1..MaxList}
    /\ mm_interfaces = <<>> /\ capture_threads = <<>> /\ spc = "parse"
    /\ dloc = "none" /\ ppc = [t \in Sessions |-> 0] /\ line_owners = {}
    /\ AggInit /\ LifeIdle /\ DecIdle /\ MainIdle /\ RenIdle

\* parseInterfaceList: for each token, start = find_first_not_of(" \t"),
\* end = find_last_not_of(" \t"); a token with a non-blank character is
\* pushed back as substr(start, end - start + 1), a blank token is dropped
parseInterfaceList_tokens(list) ==
    LET NonBlank(token) == {i \in 1..Len(token) : token[i] # " "}
        start(token) == CHOOSE i \in NonBlank(token) : \A j \in NonBlank(token) : i <= j
        end(token) == CHOOSE i \in NonBlank(token) : \A j \in NonBlank(token) : j <= i
        kept == SelectSeq(list, LAMBDA token : NonBlank(token) # {})
    IN  [i \in 1..Len(kept) |-> SubSeq(kept[i], start(kept[i]), end(kept[i]))]

\* main.cpp 257-276: interfaces = parseInterfaceList(interface_list);
\* if (interfaces.empty()) return 1; the MultiMonitor constructor copies the
\* vector into MultiMonitor::interfaces
main_multi_parse ==
    /\ spc = "parse"
    /\ mm_interfaces' = parseInterfaceList_tokens(list_arg)
    /\ spc' = IF parseInterfaceList_tokens(list_arg) = <<>> THEN "return_1" ELSE "start"
    /\ UNCHANGED <<list_arg, capture_threads, dloc, ppc, line_owners,
                   aggVars, lifeVars, decVars, mainVars, renVars>>

\* startCapture: for (const auto& iface : interfaces)
\*     capture_threads.emplace_back(&MultiMonitor::captureThread, this, iface);
startCapture_emplace ==
    /\ spc = "start"
    /\ capture_threads' = Append(capture_threads,
                                 mm_interfaces[Len(capture_threads) + 1])
    /\ spc' = IF Len(capture_threads) + 1 = Len(mm_interfaces) THEN "join" ELSE "start"
    /\ UNCHANGED <<list_arg, mm_interfaces, dloc, ppc, line_owners,
                   aggVars, lifeVars, decVars, mainVars, renVars>>

NextStart == main_multi_parse \/ startCapture_emplace

SpecStart == InitStart /\ [][NextStart]_vars

\* C33: startCapture launches exactly one capture session per device name of
\* its input: no device is monitored by two sessions, also when the
\* interface list names the same device twice, and once the loop has ended
\* every named device has a session.
C33_OneSessionPerDevice ==
    /\ \A i, j \in DOMAIN capture_threads :
           i # j => capture_threads[i] # capture_threads[j]
    /\ spc = "join" =>
           \A i \in DOMAIN mm_interfaces :
               \E j \in DOMAIN capture_threads : capture_threads[j] = mm_interfaces[i]

\* ---- console mode with several capture threads: printPacketInfo writes
\* its line with LINE_PIECES separate operator<< calls on std::cout, the
\* last of them std::endl, and holds no lock
\* capture thread t writes the next piece of its line
printPacketInfo_piece(t) ==
    /\ ppc' = [ppc EXCEPT ![t] = IF @ + 1 = LINE_PIECES THEN 0 ELSE @ + 1]
    /\ line_owners' = IF ppc[t] + 1 = LINE_PIECES THEN {} ELSE line_owners \cup {t}
    /\ UNCHANGED <<dloc, list_arg, mm_interfaces, capture_threads, spc,
                   aggVars, lifeVars, decVars, mainVars, renVars>>

NextPrint == \E t \in Sessions : printPacketInfo_piece(t)

SpecPrint == InitAgg /\ [][NextPrint]_vars

\* C35: in console mode every record is emitted as one whole line: the
\* pieces of a line written by one session are never interleaved with the
\* pieces of a line of another session, so an unterminated console line
\* holds pieces of one session only.
C35_WholeLines ==
    \A t, u \in line_owners : t = u

====
